---- MODULE Spec2Model ----
(***************************************************************************)
(* Model of student_management_system.py: the Student / Course records,   *)
(* the DataStore operations, the JSON codec (to_json / from_json) and the  *)
(* menu loop of main() with its save / load actions.                       *)
(***************************************************************************)
EXTENDS Integers, Sequences, FiniteSets, TLC

\* ------------------------------------------------------------------ bounds
\* Most entries (grades and listed codes / IDs together) a record holds when
\* it is handed to add_student / add_course.
MaxPre == 1
\* Most fields missing from a malformed document.
MaxMissing == 1
\* Most student IDs a course record lists when it is handed to add_course
\* where only course records come with a list.
MaxListed == 2

\* ------------------------------------------------------------------ inputs
\* IDs of the records that get added, and the IDs calls look up ("S9" is never
\* added: the ID of no student).
SIDs == {"S1"}
AnySIDs == SIDs \cup {"S9"}
Codes == {"C1", "C2"}
Names == {"Alia", "Badal"}
Ages == {20}
Addresses == {"Dhaka"}
CourseNames == {"Algorithms"}
Instructors == {"Dr. X"}
GradeSyms == {"A", "B"}

\* ------------------------------------------------------------------ helpers
\* Python's `x in lst` on a list.
InList(x, lst) == \E i \in 1..Len(lst) : lst[i] = x

ListSet(lst) == {lst[i] : i \in 1..Len(lst)}

\* Lists over S of length at most n.
ListsUpTo(S, n) == UNION {[1..k -> S] : k \in 0..n}

\* Python dicts with keys in K and values in V, holding at most n entries.
DictsUpTo(K, V, n) == UNION {[D -> V] : D \in {X \in SUBSET K : Cardinality(X) <= n}}

EmptyDict == [k \in {} |-> k]

\* d[k] = v on a dict: insert or overwrite.
DictSet(d, k, v) == [x \in DOMAIN d \cup {k} |-> IF x = k THEN v ELSE d[x]]

\* d.get(k, default)
DictGet(d, k, default) == IF k \in DOMAIN d THEN d[k] ELSE default

\* d without the keys in ks.
DictDrop(d, ks) == [x \in DOMAIN d \ ks |-> d[x]]

\* ------------------------------------------------------------------ Entity model
\* Student(name, age, address, student_id, grades, courses)
Student(name, age, address, student_id, grades, courses) ==
  [name |-> name, age |-> age, address |-> address, student_id |-> student_id,
   grades |-> grades, courses |-> courses]

\* Course(course_name, course_code, instructor, students)
Course(course_name, course_code, instructor, students) ==
  [course_name |-> course_name, course_code |-> course_code,
   instructor |-> instructor, students |-> students]

\* Mutant: the grade is not stored.
Student_add_grade_Discard(self, course_code, grade) == self

\* Mutant: the new grade replaces the whole mapping.
Student_add_grade_Replace(self, course_code, grade) ==
  [self EXCEPT !.grades = DictSet(EmptyDict, course_code, grade)]

\* Student.add_grade: self.grades[course_code] = grade
Student_add_grade(self, course_code, grade) ==
  [self EXCEPT !.grades = DictSet(@, course_code, grade)]

\* Mutant: appends without looking for the code in the list.
Student_enroll_course_AlwaysAppend(self, course_code) ==
  [self EXCEPT !.courses = Append(@, course_code)]

\* Student.enroll_course: append unless already in the list.
Student_enroll_course(self, course_code) ==
  IF ~InList(course_code, self.courses)
    THEN [self EXCEPT !.courses = Append(@, course_code)]
    ELSE self

\* Mutant: the ID is appended without looking at the list.
Course_add_student_AlwaysAppend(self, student_id) ==
  [self EXCEPT !.students = Append(@, student_id)]

\* Course.add_student: append unless already in the list.
Course_add_student(self, student_id) ==
  IF ~InList(student_id, self.students)
    THEN [self EXCEPT !.students = Append(@, student_id)]
    ELSE self

\* ------------------------------------------------------------------ display
\* ', '.join(names) if names else 'None'
JoinOrNone(names) == IF names = <<>> THEN <<"None">> ELSE names

\* The orders in which .items() can walk a dict with the keys K: a dict keeps
\* the order its keys were inserted in, which the model does not record.
Orders(K) ==
  {o \in [1..Cardinality(K) -> K] : \A i, j \in 1..Cardinality(K) : o[i] = o[j] => i = j}

\* pretty_grades after the first n items of self.grades, walked in `order`.
RECURSIVE PrettyGrades(_, _, _, _)
PrettyGrades(grades, course_lookup, order, n) ==
  IF n = 0 THEN EmptyDict
  ELSE LET cc == order[n]
           before == PrettyGrades(grades, course_lookup, order, n - 1)
       IN  IF cc \in DOMAIN course_lookup
             THEN DictSet(before, course_lookup[cc].course_name, grades[cc])
             ELSE DictSet(before, cc, grades[cc])

\* [f(x) for x in lst if x in lookup]: the kept elements of lst, in order.
KeptIn(lst, lookup) ==
  LET InLookup(x) == x \in DOMAIN lookup IN SelectSeq(lst, InLookup)

\* Student.display_student_info: the lines printed.  An empty lookup is falsy
\* and takes the branch of no lookup.
display_student_info(self, course_lookup, order) ==
  [type |-> "print",
   title |-> "Student Information:",
   name |-> self.name, id |-> self.student_id, age |-> self.age,
   address |-> self.address,
   enrolled |->
     IF course_lookup # EmptyDict
       THEN LET kept == KeptIn(self.courses, course_lookup)
            IN  JoinOrNone([i \in 1..Len(kept) |-> course_lookup[kept[i]].course_name])
       ELSE JoinOrNone(self.courses),
   grades |->
     IF course_lookup # EmptyDict
       THEN PrettyGrades(self.grades, course_lookup, order, Len(order))
       ELSE self.grades]

\* Course.display_course_info: the lines printed.
display_course_info(self, student_lookup) ==
  [type |-> "print",
   title |-> "Course Information:",
   name |-> self.course_name, code |-> self.course_code,
   instructor |-> self.instructor,
   enrolled |->
     IF student_lookup # EmptyDict
       THEN LET kept == KeptIn(self.students, student_lookup)
            IN  JoinOrNone([i \in 1..Len(kept) |-> student_lookup[kept[i]].name])
       ELSE JoinOrNone(self.students)]

\* ------------------------------------------------------------------ return values
\* A returned value or a raised exception, tagged with its Python type.  A str
\* is the list of the pieces its f-string is put together from.
\* What a CLI helper or main() printed is a str as well.
RetNone == [type |-> "None"]
RetBool(b) == [type |-> "bool", val |-> b]
RetStr(pieces) == [type |-> "str", val |-> pieces]
RetStore(d) == [type |-> "DataStore", val |-> d]
Raise(exc, args) == [type |-> "raise", exc |-> exc, args |-> args]

StudentNotFoundMsg == <<"Error: Student ID not found.">>
CourseNotFoundMsg == <<"Error: Course code not found.">>
NotEnrolledMsg ==
  <<"Error: Student must be enrolled in the course before assigning a grade.">>
EnrolledMsg(student, course) ==
  <<"Student ", student.name, " (ID: ", student.student_id, ") enrolled in ",
    course.course_name, " (Code: ", course.course_code, ").">>
GradeAddedMsg(grade, student, course) ==
  <<"Grade ", grade, " added for ", student.name, " in ", course.course_name, ".">>

\* ------------------------------------------------------------------ DataStore
\* DataStore.__init__
NewDataStore == [students |-> EmptyDict, courses |-> EmptyDict]

\* Each operation yields the store after the call and the value returned.
Outcome(d, r) == [ds |-> d, ret |-> r]

\* self.students.get(student_id): the record, or None.
get_student(self, student_id) ==
  IF student_id \in DOMAIN self.students
    THEN [found |-> TRUE, val |-> self.students[student_id]]
    ELSE [found |-> FALSE]

get_course(self, course_code) ==
  IF course_code \in DOMAIN self.courses
    THEN [found |-> TRUE, val |-> self.courses[course_code]]
    ELSE [found |-> FALSE]

\* Mutant: a second add with the same ID replaces the stored record.
add_student_Overwrite(self, student) ==
  IF student.student_id \in DOMAIN self.students
    THEN Outcome([self EXCEPT !.students = DictSet(@, student.student_id, student)],
                 RetBool(FALSE))
    ELSE Outcome([self EXCEPT !.students = DictSet(@, student.student_id, student)],
                 RetBool(TRUE))

add_student(self, student) ==
  IF student.student_id \in DOMAIN self.students
    THEN Outcome(self, RetBool(FALSE))
    ELSE Outcome([self EXCEPT !.students = DictSet(@, student.student_id, student)],
                 RetBool(TRUE))

add_course(self, course) ==
  IF course.course_code \in DOMAIN self.courses
    THEN Outcome(self, RetBool(FALSE))
    ELSE Outcome([self EXCEPT !.courses = DictSet(@, course.course_code, course)],
                 RetBool(TRUE))

\* Mutant: only the student's side of the link is set.
enroll_StudentSideOnly(self, student_id, course_code) ==
  LET student == get_student(self, student_id)
      course == get_course(self, course_code)
  IN  IF ~student.found THEN Outcome(self, RetStr(StudentNotFoundMsg))
      ELSE IF ~course.found THEN Outcome(self, RetStr(CourseNotFoundMsg))
      ELSE Outcome(
             [self EXCEPT !.students[student_id] =
                            Student_enroll_course(@, course_code)],
             RetStr(EnrolledMsg(student.val, course.val)))

\* Mutant: the course is looked up before the student.
enroll_CourseFirst(self, student_id, course_code) ==
  LET student == get_student(self, student_id)
      course == get_course(self, course_code)
  IN  IF ~course.found THEN Outcome(self, RetStr(CourseNotFoundMsg))
      ELSE IF ~student.found THEN Outcome(self, RetStr(StudentNotFoundMsg))
      ELSE Outcome(
             [students |-> [self.students EXCEPT
                              ![student_id] = Student_enroll_course(@, course_code)],
              courses |-> [self.courses EXCEPT
                              ![course_code] = Course_add_student(@, student_id)]],
             RetStr(EnrolledMsg(student.val, course.val)))

\* Mutant: the student is enrolled before the course is looked up.
enroll_BeforeCourseLookup(self, student_id, course_code) ==
  LET student == get_student(self, student_id)
      course == get_course(self, course_code)
  IN  IF ~student.found THEN Outcome(self, RetStr(StudentNotFoundMsg))
      ELSE IF ~course.found
        THEN Outcome([self EXCEPT !.students[student_id] =
                                    Student_enroll_course(@, course_code)],
                     RetStr(CourseNotFoundMsg))
      ELSE Outcome(
             [students |-> [self.students EXCEPT
                              ![student_id] = Student_enroll_course(@, course_code)],
              courses |-> [self.courses EXCEPT
                              ![course_code] = Course_add_student(@, student_id)]],
             RetStr(EnrolledMsg(student.val, course.val)))

enroll(self, student_id, course_code) ==
  LET student == get_student(self, student_id)
      course == get_course(self, course_code)
  IN  IF ~student.found THEN Outcome(self, RetStr(StudentNotFoundMsg))
      ELSE IF ~course.found THEN Outcome(self, RetStr(CourseNotFoundMsg))
      ELSE Outcome(
             [students |-> [self.students EXCEPT
                              ![student_id] = Student_enroll_course(@, course_code)],
              courses |-> [self.courses EXCEPT
                              ![course_code] = Course_add_student(@, student_id)]],
             RetStr(EnrolledMsg(student.val, course.val)))

\* Mutant: the grade is stored whether or not the course is in the store.
add_grade_AnyCourse(self, student_id, course_code, grade) ==
  LET student == get_student(self, student_id)
      course == get_course(self, course_code)
  IN  IF ~student.found THEN Outcome(self, RetStr(StudentNotFoundMsg))
      ELSE Outcome(
             [self EXCEPT !.students[student_id] =
                            Student_add_grade(@, course_code, grade)],
             IF course.found
               THEN RetStr(GradeAddedMsg(grade, student.val, course.val))
               ELSE RetStr(CourseNotFoundMsg))

\* Mutant: the grade is given to every student enrolled in the course.
add_grade_WholeCourse(self, student_id, course_code, grade) ==
  LET student == get_student(self, student_id)
      course == get_course(self, course_code)
  IN  IF ~student.found THEN Outcome(self, RetStr(StudentNotFoundMsg))
      ELSE IF ~course.found THEN Outcome(self, RetStr(CourseNotFoundMsg))
      ELSE IF ~InList(course_code, student.val.courses)
        THEN Outcome(self, RetStr(NotEnrolledMsg))
      ELSE Outcome(
             [self EXCEPT !.students =
                [sid \in DOMAIN @ |->
                   IF InList(course_code, @[sid].courses)
                     THEN Student_add_grade(@[sid], course_code, grade)
                     ELSE @[sid]]],
             RetStr(GradeAddedMsg(grade, student.val, course.val)))

\* Mutant: the grade is stored without the enrollment check.
add_grade_NoEnrollCheck(self, student_id, course_code, grade) ==
  LET student == get_student(self, student_id)
      course == get_course(self, course_code)
  IN  IF ~student.found THEN Outcome(self, RetStr(StudentNotFoundMsg))
      ELSE IF ~course.found THEN Outcome(self, RetStr(CourseNotFoundMsg))
      ELSE Outcome(
             [self EXCEPT !.students[student_id] =
                            Student_add_grade(@, course_code, grade)],
             RetStr(GradeAddedMsg(grade, student.val, course.val)))

add_grade(self, student_id, course_code, grade) ==
  LET student == get_student(self, student_id)
      course == get_course(self, course_code)
  IN  IF ~student.found THEN Outcome(self, RetStr(StudentNotFoundMsg))
      ELSE IF ~course.found THEN Outcome(self, RetStr(CourseNotFoundMsg))
      ELSE IF ~InList(course_code, student.val.courses)
        THEN Outcome(self, RetStr(NotEnrolledMsg))
      ELSE Outcome(
             [self EXCEPT !.students[student_id] =
                            Student_add_grade(@, course_code, grade)],
             RetStr(GradeAddedMsg(grade, student.val, course.val)))

\* ------------------------------------------------------------------ JSON codec
\* The dict built for one student / one course by to_json.
StudentToJson(s) ==
  [name |-> s.name, age |-> s.age, address |-> s.address,
   student_id |-> s.student_id, grades |-> s.grades, courses |-> s.courses]

CourseToJson(c) ==
  [course_name |-> c.course_name, course_code |-> c.course_code,
   instructor |-> c.instructor, students |-> c.students]

to_json(self) ==
  [students |-> [sid \in DOMAIN self.students |-> StudentToJson(self.students[sid])],
   courses |-> [cc \in DOMAIN self.courses |-> CourseToJson(self.courses[cc])]]

\* The subscripted fields of an entry, in the order the constructor call
\* evaluates them.
StudentRequired == <<"name", "age", "address", "student_id">>
CourseRequired == <<"course_name", "course_code", "instructor">>

\* Index of the first field of `required` the entry lacks (s["name"] raises
\* KeyError there), 0 when it has them all.
FirstMissing(entry, required) ==
  IF \E i \in 1..Len(required) : required[i] \notin DOMAIN entry
    THEN CHOOSE i \in 1..Len(required) :
           /\ required[i] \notin DOMAIN entry
           /\ \A j \in 1..(i - 1) : required[j] \in DOMAIN entry
    ELSE 0

\* The keys of a dict as .items() walks them.  A dict keeps insertion order;
\* the model fixes one order per key set.
RECURSIVE KeyOrder(_)
KeyOrder(K) ==
  IF K = {} THEN <<>>
  ELSE LET k == CHOOSE x \in K : TRUE IN <<k>> \o KeyOrder(K \ {k})

\* Mutant: the grades of the document are not read.
StudentFromJson_NoGrades(s) ==
  Student(s.name, s.age, s.address, s.student_id, EmptyDict,
          DictGet(s, "courses", <<>>))

\* Student(name=s["name"], ..., grades=s.get("grades", {}), courses=s.get("courses", []))
StudentFromJson(s) ==
  Student(s.name, s.age, s.address, s.student_id,
          DictGet(s, "grades", EmptyDict), DictGet(s, "courses", <<>>))

CourseFromJson(c) ==
  Course(c.course_name, c.course_code, c.instructor, DictGet(c, "students", <<>>))

\* The first entry, in walking order, that lacks a required field: 0 if none.
FirstBad(entries, required) ==
  LET keys == KeyOrder(DOMAIN entries)
      bad == {i \in 1..Len(keys) : FirstMissing(entries[keys[i]], required) # 0}
  IN  IF bad = {} THEN [key |-> "", field |-> ""]
      ELSE LET i == CHOOSE x \in bad : \A y \in bad : x <= y
           IN  [key |-> keys[i],
                field |-> required[FirstMissing(entries[keys[i]], required)]]

\* Mutant: an entry that lacks a required field is left out of the store.
from_json_SkipBad(data) ==
  LET sdocs == DictGet(data, "students", EmptyDict)
      cdocs == DictGet(data, "courses", EmptyDict)
      sok == {k \in DOMAIN sdocs : FirstMissing(sdocs[k], StudentRequired) = 0}
      cok == {k \in DOMAIN cdocs : FirstMissing(cdocs[k], CourseRequired) = 0}
  IN  RetStore([students |-> [sid \in sok |-> StudentFromJson(sdocs[sid])],
                courses |-> [cc \in cok |-> CourseFromJson(cdocs[cc])]])

\* DataStore.from_json: the rebuilt store, or the KeyError a missing field raises.
from_json(data) ==
  LET sdocs == DictGet(data, "students", EmptyDict)
      cdocs == DictGet(data, "courses", EmptyDict)
      sbad == FirstBad(sdocs, StudentRequired)
      cbad == FirstBad(cdocs, CourseRequired)
  IN  IF sbad.field # "" THEN Raise("KeyError", <<sbad.field>>)
      ELSE IF cbad.field # "" THEN Raise("KeyError", <<cbad.field>>)
      ELSE RetStore([students |-> [sid \in DOMAIN sdocs |-> StudentFromJson(sdocs[sid])],
                     courses |-> [cc \in DOMAIN cdocs |-> CourseFromJson(cdocs[cc])]])

\* ------------------------------------------------------------------ documents
StudentFields == {"name", "age", "address", "student_id", "grades", "courses"}
CourseFields == {"course_name", "course_code", "instructor", "students"}

Missing(fields) == {X \in SUBSET fields : Cardinality(X) <= MaxMissing}

\* The documents handed to from_json: the store's own document, and the same
\* with fields cut from one student entry and / or one course entry (a
\* hand-edited file), at most MaxMissing fields in all.
DocsOf(d) ==
  LET doc == to_json(d)
      cuts == {p \in Missing(StudentFields) \X Missing(CourseFields) :
                 Cardinality(p[1]) + Cardinality(p[2]) <= MaxMissing}
  IN  {[students |-> [sid \in DOMAIN doc.students |->
                        IF sid = sk THEN DictDrop(doc.students[sid], p[1])
                                    ELSE doc.students[sid]],
        courses |-> [cc \in DOMAIN doc.courses |->
                        IF cc = ck THEN DictDrop(doc.courses[cc], p[2])
                                   ELSE doc.courses[cc]]] :
         sk \in SIDs, ck \in Codes, p \in cuts}

\* The store's document with the identity field of one entry edited to
\* another ID or code, the key it is filed under left as it was.
RekeyedDocsOf(d) ==
  LET doc == to_json(d)
  IN  {[doc EXCEPT !.students[sid].student_id = other] :
         <<sid, other>> \in {q \in (DOMAIN doc.students) \X AnySIDs : q[1] # q[2]}}
      \cup
      {[doc EXCEPT !.courses[cc].course_code = other] :
         <<cc, other>> \in {q \in (DOMAIN doc.courses) \X Codes : q[1] # q[2]}}

\* ------------------------------------------------------------------ data file
\* The file is absent, or present with the permissions open() meets and its
\* text: a JSON document, or text json.load cannot parse.  json.dump followed
\* by json.load gives back the dicts, lists, strs and ints of a document as
\* they were, so the text of a document is kept as the document.
NoFile == [exists |-> FALSE]
DataFile(perm, content) == [exists |-> TRUE, perm |-> perm, content |-> content]
JsonText(data) == [json |-> TRUE, data |-> data]
Garbage == [json |-> FALSE]

DATA_FILE == "students_courses_data.json"

\* open(path, "r") then json.load then from_json.
load_from_file(f) ==
  IF f.perm = "denied" THEN Raise("PermissionError", <<"Permission denied", DATA_FILE>>)
  ELSE IF ~f.content.json THEN Raise("JSONDecodeError", <<"Expecting value">>)
  ELSE from_json(f.content.data)

\* open(path, "w") then json.dump(self.to_json()): the file afterwards, and
\* None or the exception raised.
save_to_file(self, f) ==
  IF f.exists /\ f.perm = "denied"
    THEN [file |-> f, ret |-> Raise("PermissionError", <<"Permission denied", DATA_FILE>>)]
    ELSE [file |-> DataFile("ok", JsonText(to_json(self))), ret |-> RetNone]

NoFileMsg == <<"No data file found. Starting with a new database.">>
LoadedMsg == <<"Data loaded successfully.">>
SavedMsg == <<"All student and course data saved successfully.">>

\* Mutant: a missing file is opened like any other.
load_data_cli_OpensMissing(f) ==
  IF ~f.exists
    THEN [ret |-> Raise("FileNotFoundError", <<"No such file or directory", DATA_FILE>>),
          printed |-> <<>>]
    ELSE LET r == load_from_file(f)
         IN  IF r.type = "raise" THEN [ret |-> r, printed |-> <<>>]
             ELSE [ret |-> r, printed |-> LoadedMsg]

\* load_data_cli: the store returned and the line printed, or the exception
\* load_from_file raised.
load_data_cli(f) ==
  IF ~f.exists THEN [ret |-> RetStore(NewDataStore), printed |-> NoFileMsg]
  ELSE LET r == load_from_file(f)
       IN  IF r.type = "raise" THEN [ret |-> r, printed |-> <<>>]
           ELSE [ret |-> r, printed |-> LoadedMsg]

\* ------------------------------------------------------------------ state
VARIABLES
  ds,         \* the DataStore
  call,       \* the last call: its operation and arguments
  ret,        \* what the last call returned or raised
  freshOnly,  \* every record of ds was inserted by add_student / add_course
              \* with empty collections
  enrolled,   \* the (student_id, course_code) pairs enroll has succeeded for on ds
  pc,         \* "import": the module is used as a library; "menu", "crashed",
              \* "exited": where main() is
  file,       \* the data file DATA_FILE
  ds2,        \* a second store: the one from_json rebuilt from ds.to_json()
  shared      \* the records whose grades / courses / students objects ds and
              \* ds2 both hold

vars == <<ds, call, ret, freshOnly, enrolled, pc, file, ds2, shared>>

\* No record of ds has a collection that ds2 holds too.
NoneShared == [students |-> {}, courses |-> {}]

\* A list or dict is an object: an append or an item assignment through one
\* store is seen through every record that holds the same object.  `other`
\* after a call changed the store `changed`.
Mirror(changed, other, sh) ==
  [students |->
     [sid \in DOMAIN other.students |->
        IF sid \in sh.students
          THEN [other.students[sid] EXCEPT
                  !.grades = changed.students[sid].grades,
                  !.courses = changed.students[sid].courses]
          ELSE other.students[sid]],
   courses |->
     [cc \in DOMAIN other.courses |->
        IF cc \in sh.courses
          THEN [other.courses[cc] EXCEPT !.students = changed.courses[cc].students]
          ELSE other.courses[cc]]]

\* The records a caller can hand to add_student / add_course.
StudentInputs ==
  {Student(n, a, ad, sid, p[1], p[2]) :
     n \in Names, a \in Ages, ad \in Addresses, sid \in SIDs,
     p \in {q \in DictsUpTo(Codes, GradeSyms, MaxPre) \X ListsUpTo(Codes, MaxPre) :
              Cardinality(DOMAIN q[1]) + Len(q[2]) <= MaxPre}}

CourseInputs ==
  {Course(cn, cc, ins, ss) :
     cn \in CourseNames, cc \in Codes, ins \in Instructors,
     ss \in ListsUpTo(SIDs, MaxPre)}

Init ==
  /\ ds = NewDataStore
  /\ call = [op |-> "__init__"]
  /\ ret = RetNone
  /\ freshOnly = TRUE
  /\ enrolled = {}
  /\ pc = "import"
  /\ file = NoFile
  /\ ds2 = NewDataStore
  /\ shared = NoneShared

AddStudent(student) ==
  LET out == add_student(ds, student)
  IN  /\ ds' = out.ds
      /\ ret' = out.ret
      /\ call' = [op |-> "add_student", student_id |-> student.student_id]
      /\ freshOnly' = (freshOnly /\ (out.ret.val =>
                          (student.grades = EmptyDict /\ student.courses = <<>>)))
      /\ UNCHANGED <<enrolled, pc, file, ds2, shared>>

AddCourse(course) ==
  LET out == add_course(ds, course)
  IN  /\ ds' = out.ds
      /\ ret' = out.ret
      /\ call' = [op |-> "add_course", course_code |-> course.course_code]
      /\ freshOnly' = (freshOnly /\ (out.ret.val => course.students = <<>>))
      /\ UNCHANGED <<enrolled, pc, file, ds2, shared>>

Enroll(student_id, course_code) ==
  LET out == enroll(ds, student_id, course_code)
  IN  /\ ds' = out.ds
      /\ ret' = out.ret
      /\ call' = [op |-> "enroll", student_id |-> student_id,
                  course_code |-> course_code]
      /\ enrolled' = IF student_id \in DOMAIN ds.students
                        /\ course_code \in DOMAIN ds.courses
                       THEN enrolled \cup {<<student_id, course_code>>}
                       ELSE enrolled
      /\ ds2' = Mirror(out.ds, ds2, shared)
      /\ UNCHANGED <<freshOnly, pc, file, shared>>

AddGrade(student_id, course_code, grade) ==
  LET out == add_grade(ds, student_id, course_code, grade)
  IN  /\ ds' = out.ds
      /\ ret' = out.ret
      /\ call' = [op |-> "add_grade", student_id |-> student_id,
                  course_code |-> course_code, grade |-> grade]
      /\ ds2' = Mirror(out.ds, ds2, shared)
      /\ UNCHANGED <<freshOnly, enrolled, pc, file, shared>>

FromJson(data) ==
  /\ ret' = from_json(data)
  /\ call' = [op |-> "from_json"]
  /\ UNCHANGED <<ds, freshOnly, enrolled, pc, file, ds2, shared>>

\* The lookups a caller can hand to a display method: the store's own mapping
\* (as the CLI does) or a part of it.
Lookups(d) == {[k \in K |-> d[k]] : K \in SUBSET DOMAIN d}

\* student.display_student_info(course_lookup) on a student of the store.
DisplayStudent(student_id, course_lookup, order) ==
  /\ student_id \in DOMAIN ds.students
  /\ ret' = display_student_info(ds.students[student_id], course_lookup, order)
  /\ call' = [op |-> "display_student_info", student_id |-> student_id,
              lookup |-> DOMAIN course_lookup]
  /\ UNCHANGED <<ds, freshOnly, enrolled, pc, file, ds2, shared>>

\* course.display_course_info(student_lookup) on a course of the store.
DisplayCourse(course_code, student_lookup) ==
  /\ course_code \in DOMAIN ds.courses
  /\ ret' = display_course_info(ds.courses[course_code], student_lookup)
  /\ call' = [op |-> "display_course_info", course_code |-> course_code,
              lookup |-> DOMAIN student_lookup]
  /\ UNCHANGED <<ds, freshOnly, enrolled, pc, file, ds2, shared>>

Next ==
  \/ \E student \in StudentInputs : AddStudent(student)
  \/ \E course \in CourseInputs : AddCourse(course)
  \/ \E sid \in AnySIDs, cc \in Codes : Enroll(sid, cc)
  \/ \E sid \in AnySIDs, cc \in Codes, g \in GradeSyms : AddGrade(sid, cc, g)
  \/ \E data \in DocsOf(ds) \cup RekeyedDocsOf(ds) : FromJson(data)
  \/ \E sid \in DOMAIN ds.students, lookup \in Lookups(ds.courses) :
       \E order \in Orders(DOMAIN ds.students[sid].grades) :
         DisplayStudent(sid, lookup, order)
  \/ \E cc \in DOMAIN ds.courses, lookup \in Lookups(ds.students) :
       DisplayCourse(cc, lookup)

Spec == Init /\ [][Next]_vars

\* ------------------------------------------------------------------ main()
\* What the user types at a prompt, "" for an empty line.
RequiredMsg == <<"Error: Name, Address, and Student ID are required.">>
CourseRequiredMsg == <<"Error: Course Name, Course Code, and Instructor are required.">>
StudentAddedMsg(student) ==
  <<"Student ", student.name, " (ID: ", student.student_id, ") added successfully.">>
StudentExistsMsg == <<"Error: A student with this ID already exists.">>
CourseCreatedMsg(course) ==
  <<"Course ", course.course_name, " (Code: ", course.course_code,
    ") created with instructor ", course.instructor, ".">>
CourseExistsMsg == <<"Error: A course with this code already exists.">>
EmptyGradeMsg == <<"Error: Grade cannot be empty.">>
GoodbyeMsg == <<"Exiting Student Management System. Goodbye!">>
InvalidOptionMsg == <<"Invalid option. Please try again.">>

\* The store of the specification's scenario, for the files found at start.
SampleStore ==
  add_grade(
    enroll(
      add_course(
        add_student(NewDataStore,
                    Student("Alia", 20, "Dhaka", "S1", EmptyDict, <<>>)).ds,
        Course("Algorithms", "C1", "Dr. X", <<>>)).ds,
      "S1", "C1").ds,
    "S1", "C1", "A").ds

\* The data file as main() may find it.
InitialFiles ==
  {NoFile, DataFile("denied", Garbage), DataFile("ok", Garbage)}
    \cup {DataFile("ok", JsonText(d)) : d \in DocsOf(SampleStore)}

InitMain ==
  /\ ds = NewDataStore
  /\ call = [op |-> "__init__"]
  /\ ret = RetNone
  /\ freshOnly = TRUE
  /\ enrolled = {}
  /\ pc = "menu"
  /\ file \in InitialFiles
  /\ ds2 = NewDataStore
  /\ shared = NoneShared

\* choice "1": add_new_student_cli
Menu1(name, age, address, student_id) ==
  /\ pc = "menu"
  /\ call' = [op |-> "add_new_student_cli", student_id |-> student_id]
  /\ IF name = "" \/ address = "" \/ student_id = ""
       THEN /\ ret' = RetStr(RequiredMsg)
            /\ UNCHANGED ds
       ELSE LET student == Student(name, age, address, student_id, EmptyDict, <<>>)
                out == add_student(ds, student)
            IN  /\ ds' = out.ds
                /\ ret' = RetStr(IF out.ret.val THEN StudentAddedMsg(student)
                                                ELSE StudentExistsMsg)
  /\ UNCHANGED <<freshOnly, enrolled, pc, file, ds2, shared>>

\* choice "2": add_new_course_cli
Menu2(course_name, course_code, instructor) ==
  /\ pc = "menu"
  /\ call' = [op |-> "add_new_course_cli", course_code |-> course_code]
  /\ IF course_name = "" \/ course_code = "" \/ instructor = ""
       THEN /\ ret' = RetStr(CourseRequiredMsg)
            /\ UNCHANGED ds
       ELSE LET course == Course(course_name, course_code, instructor, <<>>)
                out == add_course(ds, course)
            IN  /\ ds' = out.ds
                /\ ret' = RetStr(IF out.ret.val THEN CourseCreatedMsg(course)
                                                ELSE CourseExistsMsg)
  /\ UNCHANGED <<freshOnly, enrolled, pc, file, ds2, shared>>

\* choice "3": enroll_student_in_course_cli
Menu3(student_id, course_code) ==
  /\ pc = "menu"
  /\ Enroll(student_id, course_code)

\* choice "4": add_grade_for_student_cli
Menu4(student_id, course_code, grade) ==
  /\ pc = "menu"
  /\ IF grade = ""
       THEN /\ call' = [op |-> "add_grade_for_student_cli"]
            /\ ret' = RetStr(EmptyGradeMsg)
            /\ UNCHANGED <<ds, freshOnly, enrolled, pc, file, ds2, shared>>
       ELSE AddGrade(student_id, course_code, grade)

\* choice "5": display_student_details_cli, the lookup being ds.courses
Menu5(student_id) ==
  /\ pc = "menu"
  /\ IF ~get_student(ds, student_id).found
       THEN /\ call' = [op |-> "display_student_details_cli"]
            /\ ret' = RetStr(StudentNotFoundMsg)
            /\ UNCHANGED <<ds, freshOnly, enrolled, pc, file, ds2, shared>>
       ELSE \E order \in Orders(DOMAIN ds.students[student_id].grades) :
              DisplayStudent(student_id, ds.courses, order)

\* choice "6": display_course_details_cli, the lookup being ds.students
Menu6(course_code) ==
  /\ pc = "menu"
  /\ IF ~get_course(ds, course_code).found
       THEN /\ call' = [op |-> "display_course_details_cli"]
            /\ ret' = RetStr(CourseNotFoundMsg)
            /\ UNCHANGED <<ds, freshOnly, enrolled, pc, file, ds2, shared>>
       ELSE DisplayCourse(course_code, ds.students)

\* choice "7": save_data_cli; an exception of save_to_file ends main().
Menu7 ==
  /\ pc = "menu"
  /\ LET out == save_to_file(ds, file)
     IN  /\ file' = out.file
         /\ call' = [op |-> "save_data_cli"]
         /\ IF out.ret.type = "raise"
              THEN ret' = out.ret /\ pc' = "crashed"
              ELSE ret' = RetStr(SavedMsg) /\ pc' = pc
  /\ UNCHANGED <<ds, freshOnly, enrolled, ds2, shared>>

\* choice "8": ds = load_data_cli(); an exception of load_from_file is caught
\* nowhere and ends main().
Menu8 ==
  /\ pc = "menu"
  /\ LET out == load_data_cli(file)
     IN  /\ call' = [op |-> "load_data_cli"]
         /\ IF out.ret.type = "raise"
              THEN /\ ret' = out.ret
                   /\ pc' = "crashed"
                   /\ UNCHANGED <<ds, freshOnly, enrolled>>
              ELSE /\ ret' = RetStr(out.printed)
                   /\ pc' = pc
                   /\ ds' = out.ret.val
                   /\ freshOnly' = ~file.exists
                   /\ enrolled' = {}
  /\ UNCHANGED <<file, ds2, shared>>

\* choice "0"
Menu0 ==
  /\ pc = "menu"
  /\ pc' = "exited"
  /\ call' = [op |-> "exit"]
  /\ ret' = RetStr(GoodbyeMsg)
  /\ UNCHANGED <<ds, freshOnly, enrolled, file, ds2, shared>>

\* any other choice
MenuInvalid ==
  /\ pc = "menu"
  /\ call' = [op |-> "invalid"]
  /\ ret' = RetStr(InvalidOptionMsg)
  /\ UNCHANGED <<ds, freshOnly, enrolled, pc, file, ds2, shared>>

NextMain ==
  \/ \E n \in Names \cup {""}, a \in Ages, ad \in Addresses \cup {""},
        sid \in SIDs \cup {""} : Menu1(n, a, ad, sid)
  \/ \E cn \in CourseNames \cup {""}, cc \in Codes \cup {""},
        ins \in Instructors \cup {""} : Menu2(cn, cc, ins)
  \/ \E sid \in AnySIDs, cc \in Codes : Menu3(sid, cc)
  \/ \E sid \in AnySIDs, cc \in Codes, g \in GradeSyms \cup {""} : Menu4(sid, cc, g)
  \/ \E sid \in AnySIDs : Menu5(sid)
  \/ \E cc \in Codes : Menu6(cc)
  \/ Menu7
  \/ Menu8
  \/ Menu0
  \/ MenuInvalid

SpecMain == InitMain /\ [][NextMain]_vars

\* ------------------------------------------------------------------ two stores
\* Records with empty collections, as the CLI builds them.
FreshStudents == {s \in StudentInputs : s.grades = EmptyDict /\ s.courses = <<>>}
FreshCourses == {c \in CourseInputs : c.students = <<>>}

\* ds2 = DataStore.from_json(ds.to_json()): to_json puts each record's grades,
\* courses and students objects into the document and from_json hands the
\* same objects to the records it builds.
RoundTrip ==
  /\ ds2 = NewDataStore
  /\ shared = NoneShared
  /\ ds2' = from_json(to_json(ds)).val
  /\ shared' = [students |-> DOMAIN ds.students, courses |-> DOMAIN ds.courses]
  /\ call' = [op |-> "round_trip"]
  /\ ret' = RetNone
  /\ UNCHANGED <<ds, freshOnly, enrolled, pc, file>>

\* ds2.enroll(student_id, course_code)
Enroll2(student_id, course_code) ==
  LET out == enroll(ds2, student_id, course_code)
  IN  /\ ds2' = out.ds
      /\ ret' = out.ret
      /\ call' = [op |-> "ds2.enroll", student_id |-> student_id,
                  course_code |-> course_code]
      /\ ds' = Mirror(out.ds, ds, shared)
      /\ UNCHANGED <<freshOnly, enrolled, pc, file, shared>>

\* ds2.add_grade(student_id, course_code, grade)
AddGrade2(student_id, course_code, grade) ==
  LET out == add_grade(ds2, student_id, course_code, grade)
  IN  /\ ds2' = out.ds
      /\ ret' = out.ret
      /\ call' = [op |-> "ds2.add_grade", student_id |-> student_id,
                  course_code |-> course_code, grade |-> grade]
      /\ ds' = Mirror(out.ds, ds, shared)
      /\ UNCHANGED <<freshOnly, enrolled, pc, file, shared>>

NextCopy ==
  \/ \E student \in FreshStudents : AddStudent(student)
  \/ \E course \in FreshCourses : AddCourse(course)
  \/ RoundTrip
  \/ \E sid \in AnySIDs, cc \in Codes : Enroll(sid, cc)
  \/ \E sid \in AnySIDs, cc \in Codes, g \in GradeSyms : AddGrade(sid, cc, g)
  \/ \E sid \in AnySIDs, cc \in Codes : Enroll2(sid, cc)
  \/ \E sid \in AnySIDs, cc \in Codes, g \in GradeSyms : AddGrade2(sid, cc, g)

SpecCopy == Init /\ [][NextCopy]_vars

\* ------------------------------------------------------------------ course lists
\* Course records as a caller other than the CLI can build them: with a list
\* of student IDs, the same ID possibly more than once.
ListedCourses ==
  {Course(cn, cc, ins, ss) :
     cn \in CourseNames, cc \in Codes, ins \in Instructors,
     ss \in ListsUpTo(SIDs, MaxListed)}

\* The DataStore operations with student records as the CLI builds them and
\* course records of any kind.
NextListed ==
  \/ \E student \in FreshStudents : AddStudent(student)
  \/ \E course \in ListedCourses : AddCourse(course)
  \/ \E sid \in AnySIDs, cc \in Codes : Enroll(sid, cc)
  \/ \E sid \in AnySIDs, cc \in Codes, g \in GradeSyms : AddGrade(sid, cc, g)

SpecListed == Init /\ [][NextListed]_vars

\* ------------------------------------------------------------------ two students
\* A store with two students, each added as the CLI builds the record.
TwoSIDs == {"S1", "S2"}
NameOf == [sid \in TwoSIDs |-> IF sid = "S1" THEN "Alia" ELSE "Badal"]

TwoStudents ==
  {Student(NameOf[sid], a, ad, sid, EmptyDict, <<>>) :
     sid \in TwoSIDs, a \in Ages, ad \in Addresses}

NextTwo ==
  \/ \E student \in TwoStudents : AddStudent(student)
  \/ \E course \in FreshCourses : AddCourse(course)
  \/ \E sid \in TwoSIDs \cup AnySIDs, cc \in Codes : Enroll(sid, cc)
  \/ \E sid \in TwoSIDs \cup AnySIDs, cc \in Codes, g \in GradeSyms :
       AddGrade(sid, cc, g)

SpecTwo == Init /\ [][NextTwo]_vars

\* ------------------------------------------------------------------ properties
\* c's course code is in s.courses exactly when s's student ID is in c.students.
Linked(d) ==
  \A s \in DOMAIN d.students, c \in DOMAIN d.courses :
    InList(d.courses[c].course_code, d.students[s].courses)
      <=> InList(d.students[s].student_id, d.courses[c].students)

\* Every graded course code of a student is in the student's courses.
GradesEnrolled(d) ==
  \A s \in DOMAIN d.students :
    \A c \in DOMAIN d.students[s].grades : InList(c, d.students[s].courses)

\* C1 as stated: in every store reachable by add_student, add_course, enroll
\* and add_grade calls, a course code is in a student's courses if and only if
\* the student's ID is in the course's students.
C1_SymmetryAnyRecord == Linked(ds)

\* C1, amended: the enrollment link is set on both sides or on neither in
\* every store built by calls whose added records came with empty collections.
C1_SymmetryFreshRecords == freshOnly => Linked(ds)

C1_Witness ==
  /\ freshOnly
  /\ call.op = "enroll"
  /\ \E s \in DOMAIN ds.students, c \in DOMAIN ds.courses :
       /\ InList(c, ds.students[s].courses)
       /\ InList(s, ds.courses[c].students)

\* C2 as stated: in every store reachable by add_student, add_course, enroll
\* and add_grade calls, every key of a student's grades is in the student's
\* courses.
C2_GradesAnyRecord == GradesEnrolled(ds)

\* C2, amended: every graded course code is an enrolled one in every store
\* built by calls whose added records came with empty collections.
C2_GradesFreshRecords == freshOnly => GradesEnrolled(ds)

C2_Witness ==
  /\ freshOnly
  /\ call.op = "add_grade"
  /\ \E s \in DOMAIN ds.students : DOMAIN ds.students[s].grades # {}

\* What C3 says of a call add_grade(s, c, g) with s and c in the store.
GradeNeedsEnroll(s, c, g) ==
  IF <<s, c>> \notin enrolled
    THEN ret' = RetStr(NotEnrolledMsg) /\ ds' = ds
    ELSE /\ ret' = RetStr(GradeAddedMsg(g, ds.students[s], ds.courses[c]))
         /\ c \in DOMAIN get_student(ds', s).val.grades
         /\ get_student(ds', s).val.grades[c] = g

\* C3 as stated: add_grade(s, c, g) with s and c present fails with the
\* not-enrolled error and changes nothing when no enroll(s, c) has succeeded
\* before it, and succeeds and stores g once enroll(s, c) has succeeded.
C3_GradeAfterEnrollAnyRecord ==
  [][(call'.op = "add_grade"
        /\ AddGrade(call'.student_id, call'.course_code, call'.grade)
        /\ call'.student_id \in DOMAIN ds.students
        /\ call'.course_code \in DOMAIN ds.courses)
       => GradeNeedsEnroll(call'.student_id, call'.course_code, call'.grade)]_vars

\* C3, amended: the same, for stores whose records were added with empty
\* collections.
C3_GradeAfterEnrollFreshRecords ==
  [][(call'.op = "add_grade"
        /\ AddGrade(call'.student_id, call'.course_code, call'.grade)
        /\ call'.student_id \in DOMAIN ds.students
        /\ call'.course_code \in DOMAIN ds.courses
        /\ freshOnly)
       => GradeNeedsEnroll(call'.student_id, call'.course_code, call'.grade)]_vars

C3_Witness ==
  /\ freshOnly
  /\ call.op = "add_grade"
  /\ <<call.student_id, call.course_code>> \in enrolled
  /\ ret.val = GradeAddedMsg(call.grade, ds.students[call.student_id],
                             ds.courses[call.course_code])
  /\ ds.students[call.student_id].grades[call.course_code] = call.grade

\* C4: add_student returns true and inserts the record when the ID is not yet
\* a key, after which get_student returns a record equal to the one added;
\* when the ID is present it returns false and the store is as it was.
C4_AddStudent ==
  \A student \in StudentInputs :
    LET out == add_student(ds, student)
    IN  IF student.student_id \notin DOMAIN ds.students
          THEN /\ out.ret = RetBool(TRUE)
               /\ get_student(out.ds, student.student_id) =
                    [found |-> TRUE, val |-> student]
          ELSE /\ out.ret = RetBool(FALSE)
               /\ out.ds = ds

C4_Witness ==
  /\ call.op = "add_student"
  /\ ret = RetBool(FALSE)
  /\ call.student_id \in DOMAIN ds.students

\* What C5 says of the message r returned for student ID s and course code c.
StudentErrorFirst(s, c, r) ==
  /\ (s \notin DOMAIN ds.students /\ c \notin DOMAIN ds.courses)
       => r = RetStr(StudentNotFoundMsg)
  /\ r = RetStr(CourseNotFoundMsg)
       => (s \in DOMAIN ds.students /\ c \notin DOMAIN ds.courses)

\* C5: in enroll and in add_grade, when the student ID and the course code are
\* both absent the result is the student-not-found error; the course-not-found
\* error is returned only when the student exists and the course does not.
C5_ValidationPrecedence ==
  [][/\ (call'.op = "enroll" /\ Enroll(call'.student_id, call'.course_code))
          => StudentErrorFirst(call'.student_id, call'.course_code, ret')
     /\ (call'.op = "add_grade"
          /\ AddGrade(call'.student_id, call'.course_code, call'.grade))
          => StudentErrorFirst(call'.student_id, call'.course_code, ret')]_vars

C5_Witness ==
  /\ call.op = "enroll"
  /\ ret = RetStr(StudentNotFoundMsg)
  /\ call.student_id \notin DOMAIN ds.students
  /\ call.course_code \notin DOMAIN ds.courses

\* C6: an enroll that fails (student not found, or course not found) leaves
\* the whole store unchanged.
C6_FailedEnrollFrame ==
  [][(call'.op = "enroll"
        /\ Enroll(call'.student_id, call'.course_code)
        /\ ret' \in {RetStr(StudentNotFoundMsg), RetStr(CourseNotFoundMsg)})
       => ds' = ds]_vars

C6_Witness ==
  /\ call.op = "enroll"
  /\ ret = RetStr(CourseNotFoundMsg)
  /\ call.student_id \in DOMAIN ds.students
  /\ DOMAIN ds.courses # {}

\* C7: enroll is idempotent: for any store and any existing student s and
\* course c, enroll(s, c) twice leaves the store that enroll(s, c) once leaves,
\* and both calls return the success message.
C7_EnrollIdempotent ==
  \A s \in DOMAIN ds.students, c \in DOMAIN ds.courses :
    LET once == enroll(ds, s, c)
        twice == enroll(once.ds, s, c)
    IN  /\ twice.ds = once.ds
        /\ once.ret = RetStr(EnrolledMsg(ds.students[s], ds.courses[c]))
        /\ twice.ret = once.ret

C7_Witness ==
  /\ call.op = "enroll"
  /\ call.student_id \in DOMAIN ds.students
  /\ call.course_code \in DOMAIN ds.courses
  /\ ret = RetStr(EnrolledMsg(ds.students[call.student_id],
                              ds.courses[call.course_code]))
  /\ enroll(ds, call.student_id, call.course_code).ds = ds

\* The stores a and b have the same keys and every record of a equals its
\* record of b attribute for attribute, lists compared as sets.
SameStore(a, b) ==
  /\ DOMAIN a.students = DOMAIN b.students
  /\ DOMAIN a.courses = DOMAIN b.courses
  /\ \A s \in DOMAIN a.students :
       /\ a.students[s].name = b.students[s].name
       /\ a.students[s].age = b.students[s].age
       /\ a.students[s].address = b.students[s].address
       /\ a.students[s].student_id = b.students[s].student_id
       /\ a.students[s].grades = b.students[s].grades
       /\ ListSet(a.students[s].courses) = ListSet(b.students[s].courses)
  /\ \A c \in DOMAIN a.courses :
       /\ a.courses[c].course_name = b.courses[c].course_name
       /\ a.courses[c].course_code = b.courses[c].course_code
       /\ a.courses[c].instructor = b.courses[c].instructor
       /\ ListSet(a.courses[c].students) = ListSet(b.courses[c].students)

\* C8: round trip: from_json(D.to_json()) has the student keys and course keys
\* of D and every record equals its original attribute for attribute.
C8_RoundTrip ==
  LET r == from_json(to_json(ds))
  IN  r.type = "DataStore" /\ SameStore(r.val, ds)

C8_Witness ==
  /\ call.op = "from_json"
  /\ ret.type = "DataStore"
  /\ ret.val = ds
  /\ \E s \in DOMAIN ds.students :
       DOMAIN ds.students[s].grades # {} /\ ds.students[s].courses # <<>>
  /\ \E c \in DOMAIN ds.courses : ds.courses[c].students # <<>>

\* The (entity key, field) pairs of a document where the entry of that key
\* lacks that required field.
Lacking(data) ==
  {p \in (DOMAIN data.students) \X ListSet(StudentRequired) :
     p[2] \notin DOMAIN data.students[p[1]]}
  \cup
  {p \in (DOMAIN data.courses) \X ListSet(CourseRequired) :
     p[2] \notin DOMAIN data.courses[p[1]]}

\* C9 as stated: from_json on a document in which an entry lacks a required
\* field fails with an error that names the missing field and the key of the
\* entity that lacks it.
C9_ErrorNamesFieldAndKey ==
  [][\A data \in DocsOf(ds) :
       (FromJson(data) /\ Lacking(data) # {}) =>
         /\ ret'.type = "raise"
         /\ \E p \in Lacking(data) :
              p[2] \in ListSet(ret'.args) /\ p[1] \in ListSet(ret'.args)]_vars

\* C9, amended: from_json on such a document fails with a KeyError whose only
\* argument is a required field that an entry lacks; the entity key is not in
\* the error.
C9_ErrorNamesFieldOnly ==
  \A data \in DocsOf(ds) :
    Lacking(data) # {} =>
      LET r == from_json(data)
      IN  /\ r.type = "raise"
          /\ r.exc = "KeyError"
          /\ \E p \in Lacking(data) : r.args = <<p[2]>>

C9_Witness ==
  /\ call.op = "from_json"
  /\ ret.type = "raise"
  /\ ret.exc = "KeyError"
  /\ DOMAIN ds.students # {}
  /\ DOMAIN ds.courses # {}

\* C10: a load that fails (the data file exists but cannot be read or holds a
\* malformed document) leaves the store held before the load as the current
\* store and main() back at the menu, ready for the next choice.
C10_FailedLoadNotFatal ==
  [][(Menu8 /\ file.exists /\ load_from_file(file).type = "raise")
       => (ds' = ds /\ pc' = "menu")]_vars

\* C11: loading when the data file does not exist raises nothing and makes the
\* current store a fresh empty store, whatever the store held before.
C11_LoadMissingFile ==
  [][(Menu8 /\ ~file.exists)
       => /\ ret'.type # "raise"
          /\ pc' = "menu"
          /\ ds' = NewDataStore]_vars

C11_Witness ==
  /\ call.op = "load_data_cli"
  /\ ret = RetStr(NoFileMsg)
  /\ ~file.exists
  /\ ds = NewDataStore
  /\ pc = "menu"

\* What a display would list for the entries `lst` if an entry the lookup
\* lacks were shown as the raw entry: `field` is the name the lookup resolves to.
ResolvedOrRaw(lst, lookup, field) ==
  JoinOrNone([i \in 1..Len(lst) |->
                IF lst[i] \in DOMAIN lookup THEN lookup[lst[i]][field] ELSE lst[i]])

\* C12: a display given a lookup lists every entry of the record, resolved to
\* the name where the lookup has the entry and as the raw code or ID where it
\* has not; no entry is dropped.
C12_DisplayKeepsEveryEntry ==
  /\ call.op = "display_student_info"
       => LET self == ds.students[call.student_id]
              course_lookup == [k \in call.lookup |-> ds.courses[k]]
          IN  ret.enrolled = ResolvedOrRaw(self.courses, course_lookup, "course_name")
  /\ call.op = "display_course_info"
       => LET self == ds.courses[call.course_code]
              student_lookup == [k \in call.lookup |-> ds.students[k]]
          IN  ret.enrolled = ResolvedOrRaw(self.students, student_lookup, "name")

\* Each key of students is the student_id of its value and each key of courses
\* the course_code of its value.
KeyIdentity(d) ==
  /\ \A sid \in DOMAIN d.students : d.students[sid].student_id = sid
  /\ \A cc \in DOMAIN d.courses : d.courses[cc].course_code = cc

\* C13: every store, built through add_student / add_course or rebuilt by
\* from_json, files each record under its own identity field.
C13_KeyIdentity ==
  /\ KeyIdentity(ds)
  /\ (call.op = "from_json" /\ ret.type = "DataStore") => KeyIdentity(ret.val)

\* Every course code in a student's courses or grades is a key of courses and
\* every student ID in a course's students is a key of students.
NoDangling(d) ==
  /\ \A s \in DOMAIN d.students :
       ListSet(d.students[s].courses) \cup DOMAIN d.students[s].grades
         \subseteq DOMAIN d.courses
  /\ \A c \in DOMAIN d.courses :
       ListSet(d.courses[c].students) \subseteq DOMAIN d.students

\* C14 as stated: in every store reachable by add_student, add_course, enroll
\* and add_grade calls, every course code a student lists or has a grade for
\* is a course of the store, and every student ID a course lists is a student
\* of the store.
C14_NoDanglingAnyRecord == NoDangling(ds)

\* C14, amended: no record refers to a course or student the store lacks in
\* every store built by calls whose added records came with empty collections.
C14_NoDanglingFreshRecords == freshOnly => NoDangling(ds)

C14_Witness ==
  /\ freshOnly
  /\ call.op = "add_grade"
  /\ DOMAIN ds.students # {}
  /\ DOMAIN ds.courses # Codes
  /\ \E s \in DOMAIN ds.students :
       /\ ds.students[s].courses # <<>>
       /\ DOMAIN ds.students[s].grades # {}
  /\ \E c \in DOMAIN ds.courses : ds.courses[c].students # <<>>

\* C15: after ds2 = DataStore.from_json(ds.to_json()), an enroll or add_grade
\* on ds2 leaves every record of ds as it was, and an enroll or add_grade on ds
\* leaves every record of ds2 as it was.
C15_RoundTripIndependent ==
  [][/\ call'.op \in {"ds2.enroll", "ds2.add_grade"} => ds' = ds
     /\ call'.op \in {"enroll", "add_grade"} => ds2' = ds2]_vars

\* No element occurs twice in the list.
NoRepeat(lst) == \A i, j \in 1..Len(lst) : lst[i] = lst[j] => i = j

NoDuplicates(d) ==
  /\ \A s \in DOMAIN d.students : NoRepeat(d.students[s].courses)
  /\ \A c \in DOMAIN d.courses : NoRepeat(d.courses[c].students)

\* C16 as stated: with the student records handed to add_student freshly
\* constructed (as they all are under SpecListed), no course code occurs twice
\* in a student's courses and no student ID twice in a course's students, in
\* every store reachable by add_student, add_course, enroll and add_grade.
C16_NoDuplicatesFreshStudents == NoDuplicates(ds)

\* C16, amended: no list holds an entry twice in every store built by calls
\* whose added student and course records all came with empty collections.
C16_NoDuplicatesFreshRecords == freshOnly => NoDuplicates(ds)

C16_Witness ==
  /\ freshOnly
  /\ call.op = "enroll"
  /\ call.student_id \in DOMAIN ds.students
  /\ ds.students[call.student_id].courses = <<"C2", "C1">>
  /\ ds.courses[call.course_code].students = <<call.student_id>>
  /\ call.course_code = "C2"

\* Everything the store d holds, the store e holds too: the keys, each
\* student's course codes and graded codes, each course's student IDs.
Keeps(d, e) ==
  /\ DOMAIN d.students \subseteq DOMAIN e.students
  /\ DOMAIN d.courses \subseteq DOMAIN e.courses
  /\ \A s \in DOMAIN d.students \cap DOMAIN e.students :
       /\ ListSet(d.students[s].courses) \subseteq ListSet(e.students[s].courses)
       /\ DOMAIN d.students[s].grades \subseteq DOMAIN e.students[s].grades
  /\ \A c \in DOMAIN d.courses \cap DOMAIN e.courses :
       ListSet(d.courses[c].students) \subseteq ListSet(e.courses[c].students)

\* C17: no add_student, add_course, enroll or add_grade call removes anything:
\* a key that is present stays present, an enrollment entry stays on the side
\* it is on, and a graded course code stays graded.
C17_MonotonicGrowth ==
  [][call'.op \in {"add_student", "add_course", "enroll", "add_grade"}
       => Keeps(ds, ds')]_vars

C17_Witness ==
  /\ call.op = "add_grade"
  /\ call.student_id \in DOMAIN ds.students
  /\ DOMAIN ds.students[call.student_id].grades = Codes
  /\ ListSet(ds.students[call.student_id].courses) = Codes
  /\ \A c \in Codes : c \in DOMAIN ds.courses /\ InList(call.student_id, ds.courses[c].students)

\* The add_grade messages that report a failure.
GradeFailures ==
  {RetStr(StudentNotFoundMsg), RetStr(CourseNotFoundMsg), RetStr(NotEnrolledMsg)}

\* Between the stores d and e nothing differs but the grade of student s for
\* course c.
OnlyGradeChanged(d, e, s, c) ==
  /\ DOMAIN e.students = DOMAIN d.students
  /\ e.courses = d.courses
  /\ \A t \in DOMAIN d.students \ {s} : e.students[t] = d.students[t]
  /\ e.students[s].courses = d.students[s].courses
  /\ DOMAIN e.students[s].grades = DOMAIN d.students[s].grades \cup {c}
  /\ \A k \in DOMAIN d.students[s].grades \ {c} :
       e.students[s].grades[k] = d.students[s].grades[k]

\* C18: a successful add_grade(s, c, g) changes the grades entry of student s
\* for course c and nothing else: the keys of students and courses, every
\* courses list, every students list, the other grades of s and the grades of
\* every other student stay as they were.
C18_AddGradeFrame ==
  [][(call'.op = "add_grade" /\ ret' \notin GradeFailures)
       => OnlyGradeChanged(ds, ds', call'.student_id, call'.course_code)]_vars

C18_Witness ==
  /\ call.op = "add_grade"
  /\ ret \notin GradeFailures
  /\ DOMAIN ds.students = TwoSIDs
  /\ \A s \in TwoSIDs : DOMAIN ds.students[s].grades = Codes
  /\ \E t \in TwoSIDs \ {call.student_id} :
       ds.students[t].grades[call.course_code] # call.grade
  /\ \E k \in Codes \ {call.course_code} :
       ds.students[call.student_id].grades[k] # call.grade

====
